---------------------------- MODULE Spec2Model ----------------------------
(***************************************************************************)
(* A model of the WhatsApp AI agent: the text pipeline of DataProcessor    *)
(* (clean_text, extract_keywords, categorize_message, analyze_sentiment,   *)
(* process_messages, generate_summary), the message normalisation of       *)
(* WhatsAppClient, the sheet writes of GoogleSheetsClient, the batch run  *)
(* WhatsAppAgent.collect_and_process_messages and the scheduled mode       *)
(* (run_scheduled, get_new_messages_only).                                 *)
(*                                                                         *)
(* A text is a sequence of Unicode code points.  An instant is a number of *)
(* minutes since 1970-01-01T00:00.                                         *)
(***************************************************************************)
EXTENDS Integers, Sequences, FiniteSets, TLC

VARIABLES
    \* ---- one call of the text functions on one text (SpecText)
    text,            \* the input text
    tpc,             \* "input", "cleaned", "recleaned", "categorized", "analysed"
    cleaned,         \* clean_text(text)
    recleaned,       \* clean_text(cleaned)
    category,        \* categorize_message(text)
    keywords,        \* extract_keywords(text)
    \* ---- one batch run (Spec)
    openai_client,   \* DataProcessor.openai_client: "client" or "None"
    spreadsheet_id,  \* WhatsAppAgent.spreadsheet_id: "id" or "None"
    caller,          \* who called process_messages: "none", "direct", "collect"
    pc,              \* "idle", "processing", "returned", "raised", "done"
    messages,        \* the batch handed to process_messages
    processed_data,  \* the records built so far
    df,              \* the DataFrame process_messages returned
    calls,           \* per input message, the outcomes of the service requests made for it
    clock,           \* the last instant a datetime.now() call returned
    reads,           \* per record, the datetime.now() values that went into it
    summary,         \* the result of generate_summary
    sheets,          \* the worksheets "Сообщения" and "Сводка" of the spreadsheet
    result,          \* what the run returned: "none", "True", "False", "df", "exception"
    log,             \* the error lines logged
    \* ---- generate_summary on a frame and on a reordering of it (SpecSummary)
    permuted,        \* the rows of df in another order
    summary2,        \* generate_summary(permuted)
    \* ---- the scheduled mode (SpecSched)
    entry,           \* the entry point: "run_scheduled", "get_new_messages_only", "none"
    inbox,           \* the messages the groups hold: what a fetch returns
    last_run,        \* the content of last_run.txt; NoneTimestamp: no such file
    prev_run,        \* last_run when the latest get_new_messages_only began
    runs,            \* how many times get_new_messages_only ran
    appended         \* whether the latest get_new_messages_only appended its rows:
                     \* "yes", "no", or "nothing" when it selected no message

tvars == <<text, tpc, cleaned, recleaned, category, keywords>>
bvars == <<openai_client, spreadsheet_id, caller, pc, messages, processed_data,
           df, calls, clock, reads, summary, sheets, result, log>>
svars == <<permuted, summary2>>
rvars == <<entry, inbox, last_run, prev_run, runs, appended>>
vars == <<tvars, bvars, svars, rvars>>

-----------------------------------------------------------------------------
(* Bounds *)

\* the largest number of fragments an input text is concatenated from
MaxFrags == 3
\* the largest number of messages in a batch
MaxBatch == 2
\* how many minutes the clock may advance during a behaviour
MaxClock == 1

-----------------------------------------------------------------------------
(* Characters *)

\* str.isspace / the regex class \s, for the code points of the model's alphabet
IsSpace(c) ==
    \/ c \in 9..13
    \/ c \in 28..32
    \/ c \in {133, 160, 5760, 8232, 8233, 8239, 8287, 12288}
    \/ c \in 8192..8202

\* the regex class \w (str.isalnum or "_"), for ASCII and the Cyrillic block
IsWord(c) ==
    \/ c \in 48..57
    \/ c \in 65..90
    \/ c = 95
    \/ c \in 97..122
    \/ c \in 1024..1153
    \/ c \in 1162..1279

\* the punctuation of the allow-list of clean_text:
\* . , ! ? - : ; ( ) [ ] { } " ' / @ # $ % ^ & * + = ~ `
AllowedPunctuation ==
    {46, 44, 33, 63, 45, 58, 59, 40, 41, 91, 93, 123, 125, 34, 39, 47, 64, 35,
     36, 37, 94, 38, 42, 43, 61, 126, 96}

\* the complement of the class [^\w\s\.\,...] of clean_text
IsAllowed(c) == IsWord(c) \/ IsSpace(c) \/ c \in AllowedPunctuation

\* the regex class [a-zA-Zа-яА-Я] of extract_keywords
IsLetter(c) ==
    \/ c \in 97..122
    \/ c \in 65..90
    \/ c \in 1072..1103
    \/ c \in 1040..1071

\* str.lower on one character (ASCII and the Cyrillic block's capitals)
LowerChar(c) ==
    IF c \in 65..90 THEN c + 32
    ELSE IF c \in 1040..1071 THEN c + 32
    ELSE IF c \in 1024..1039 THEN c + 80
    ELSE c

\* str.lower
Lower(s) == [i \in 1..Len(s) |-> LowerChar(s[i])]

-----------------------------------------------------------------------------
(* The strings of the program and of its inputs *)

\* The category table of categorize_message, in declaration order (a Python dict
\* keeps insertion order). Labels are transliterated; keywords are code points.
categories ==
  <<
    \* "Продажи/Реклама": купить, продать, цена, скидка, акция, предложение, buy, sell, price, discount
    [name |-> "Prodazhi_Reklama", keywords |-> <<
        <<1082, 1091, 1087, 1080, 1090, 1100>>,
        <<1087, 1088, 1086, 1076, 1072, 1090, 1100>>,
        <<1094, 1077, 1085, 1072>>,
        <<1089, 1082, 1080, 1076, 1082, 1072>>,
        <<1072, 1082, 1094, 1080, 1103>>,
        <<1087, 1088, 1077, 1076, 1083, 1086, 1078, 1077, 1085, 1080, 1077>>,
        <<98, 117, 121>>,
        <<115, 101, 108, 108>>,
        <<112, 114, 105, 99, 101>>,
        <<100, 105, 115, 99, 111, 117, 110, 116>>
      >>],
    \* "Вопросы": ?, как, почему, когда, где, что, кто, why, when, where, what, who
    [name |-> "Voprosy", keywords |-> <<
        <<63>>,
        <<1082, 1072, 1082>>,
        <<1087, 1086, 1095, 1077, 1084, 1091>>,
        <<1082, 1086, 1075, 1076, 1072>>,
        <<1075, 1076, 1077>>,
        <<1095, 1090, 1086>>,
        <<1082, 1090, 1086>>,
        <<119, 104, 121>>,
        <<119, 104, 101, 110>>,
        <<119, 104, 101, 114, 101>>,
        <<119, 104, 97, 116>>,
        <<119, 104, 111>>
      >>],
    \* "Информация/Новости": новость, информация, обновление, важно, news, information, update, important
    [name |-> "Informatsiya_Novosti", keywords |-> <<
        <<1085, 1086, 1074, 1086, 1089, 1090, 1100>>,
        <<1080, 1085, 1092, 1086, 1088, 1084, 1072, 1094, 1080, 1103>>,
        <<1086, 1073, 1085, 1086, 1074, 1083, 1077, 1085, 1080, 1077>>,
        <<1074, 1072, 1078, 1085, 1086>>,
        <<110, 101, 119, 115>>,
        <<105, 110, 102, 111, 114, 109, 97, 116, 105, 111, 110>>,
        <<117, 112, 100, 97, 116, 101>>,
        <<105, 109, 112, 111, 114, 116, 97, 110, 116>>
      >>],
    \* "Общение/Чат": привет, здравствуйте, спасибо, пока, hello, hi, thanks, bye
    [name |-> "Obshchenie_Chat", keywords |-> <<
        <<1087, 1088, 1080, 1074, 1077, 1090>>,
        <<1079, 1076, 1088, 1072, 1074, 1089, 1090, 1074, 1091, 1081, 1090, 1077>>,
        <<1089, 1087, 1072, 1089, 1080, 1073, 1086>>,
        <<1087, 1086, 1082, 1072>>,
        <<104, 101, 108, 108, 111>>,
        <<104, 105>>,
        <<116, 104, 97, 110, 107, 115>>,
        <<98, 121, 101>>
      >>],
    \* "Ссылки/Медиа": http, www, .com, .ru, ссылка, link, video, photo
    [name |-> "Ssylki_Media", keywords |-> <<
        <<104, 116, 116, 112>>,
        <<119, 119, 119>>,
        <<46, 99, 111, 109>>,
        <<46, 114, 117>>,
        <<1089, 1089, 1099, 1083, 1082, 1072>>,
        <<108, 105, 110, 107>>,
        <<118, 105, 100, 101, 111>>,
        <<112, 104, 111, 116, 111>>
      >>],
    \* "Работа/Бизнес": работа, проект, задача, дедлайн, work, project, task, deadline
    [name |-> "Rabota_Biznes", keywords |-> <<
        <<1088, 1072, 1073, 1086, 1090, 1072>>,
        <<1087, 1088, 1086, 1077, 1082, 1090>>,
        <<1079, 1072, 1076, 1072, 1095, 1072>>,
        <<1076, 1077, 1076, 1083, 1072, 1081, 1085>>,
        <<119, 111, 114, 107>>,
        <<112, 114, 111, 106, 101, 99, 116>>,
        <<116, 97, 115, 107>>,
        <<100, 101, 97, 100, 108, 105, 110, 101>>
      >>],
    \* "Другое": (no keywords)
    [name |-> "Drugoe", keywords |-> <<>>]
  >>

\* stop_words of extract_keywords: это, как, что, когда, где, почему, который, для, с, на, и, в, не, по, к, у, от, до, о, об, при, за, так, же, быть, был, была, было, будет, есть, are, the, is, at, which, on, and, or, but, in, with, to, for, of, as, by, that, this, it, from
stop_words ==
  {
    <<1101, 1090, 1086>>,
    <<1082, 1072, 1082>>,
    <<1095, 1090, 1086>>,
    <<1082, 1086, 1075, 1076, 1072>>,
    <<1075, 1076, 1077>>,
    <<1087, 1086, 1095, 1077, 1084, 1091>>,
    <<1082, 1086, 1090, 1086, 1088, 1099, 1081>>,
    <<1076, 1083, 1103>>,
    <<1089>>,
    <<1085, 1072>>,
    <<1080>>,
    <<1074>>,
    <<1085, 1077>>,
    <<1087, 1086>>,
    <<1082>>,
    <<1091>>,
    <<1086, 1090>>,
    <<1076, 1086>>,
    <<1086>>,
    <<1086, 1073>>,
    <<1087, 1088, 1080>>,
    <<1079, 1072>>,
    <<1090, 1072, 1082>>,
    <<1078, 1077>>,
    <<1073, 1099, 1090, 1100>>,
    <<1073, 1099, 1083>>,
    <<1073, 1099, 1083, 1072>>,
    <<1073, 1099, 1083, 1086>>,
    <<1073, 1091, 1076, 1077, 1090>>,
    <<1077, 1089, 1090, 1100>>,
    <<97, 114, 101>>,
    <<116, 104, 101>>,
    <<105, 115>>,
    <<97, 116>>,
    <<119, 104, 105, 99, 104>>,
    <<111, 110>>,
    <<97, 110, 100>>,
    <<111, 114>>,
    <<98, 117, 116>>,
    <<105, 110>>,
    <<119, 105, 116, 104>>,
    <<116, 111>>,
    <<102, 111, 114>>,
    <<111, 102>>,
    <<97, 115>>,
    <<98, 121>>,
    <<116, 104, 97, 116>>,
    <<116, 104, 105, 115>>,
    <<105, 116>>,
    <<102, 114, 111, 109>>
  }

\* The three labels analyze_sentiment accepts, as the strings the service sends.
\* "Позитивная"
Str_Pozitivnaya == <<1055, 1086, 1079, 1080, 1090, 1080, 1074, 1085, 1072, 1103>>
\* "Негативная"
Str_Negativnaya == <<1053, 1077, 1075, 1072, 1090, 1080, 1074, 1085, 1072, 1103>>
\* "Нейтральная"
Str_Neytralnaya == <<1053, 1077, 1081, 1090, 1088, 1072, 1083, 1100, 1085, 1072, 1103>>

\* The fragments input texts are concatenated from.
Fragments ==
  <<
    \* 'Купить': a Sales keyword, capitalised
    <<1050, 1091, 1087, 1080, 1090, 1100>>,
    \* '?': a Questions keyword
    <<63>>,
    \* 'news': an Information/News keyword
    <<110, 101, 119, 115>>,
    \* 'Hello, how are you': a Socializing/Chat keyword; 'are' is a stop-word
    <<72, 101, 108, 108, 111, 44, 32, 104, 111, 119, 32, 97, 114, 101, 32, 121, 111, 117>>,
    \* 'http://x.com': Links/Media keywords
    <<104, 116, 116, 112, 58, 47, 47, 120, 46, 99, 111, 109>>,
    \* 'work': a Work/Business keyword
    <<119, 111, 114, 107>>,
    \* ' ': a space
    <<32>>,
    \* '\t\n': a tab and a newline
    <<9, 10>>,
    \* '😀': an emoji (outside the allow-list)
    <<128512>>,
    \* '\u200b': a zero-width space (outside the allow-list, not whitespace)
    <<8203>>,
    \* 'aaa bbb ccc aaa ddd ': five tokens, four distinct
    <<97, 97, 97, 32, 98, 98, 98, 32, 99, 99, 99, 32, 97, 97, 97, 32, 100, 100, 100, 32>>,
    \* 'eee fff ggg x1 the ab hhh iii jjj kkk ': seven keywords among a digit token, a stop-word, a short token
    <<101, 101, 101, 32, 102, 102, 102, 32, 103, 103, 103, 32, 120, 49, 32, 116, 104, 101, 32, 97, 98, 32, 104, 104, 104, 32, 105, 105, 105, 32, 106, 106, 106, 32, 107, 107, 107, 32>>
  >>

\* "Hello, how are you? http://x.com"
Text_Scenario == <<72, 101, 108, 108, 111, 44, 32, 104, 111, 119, 32, 97, 114, 101, 32, 121, 111, 117, 63, 32, 104, 116, 116, 112, 58, 47, 47, 120, 46, 99, 111, 109>>
\* "\U0001F600 work\u200b ok": an emoji before a space, a zero-width space before a space
Text_Emoji == <<128512, 32, 119, 111, 114, 107, 8203, 32, 111, 107>>
\* "buy now"
Text_Buy == <<98, 117, 121, 32, 110, 111, 119>>
\* ' Позитивная\n': the Positive label with surrounding whitespace
Resp_Padded == <<32, 1055, 1086, 1079, 1080, 1090, 1080, 1074, 1085, 1072, 1103, 10>>
\* 'Positive.': not one of the three labels
Resp_Other == <<80, 111, 115, 105, 116, 105, 118, 101, 46>>

-----------------------------------------------------------------------------
(* clean_text *)

\* str.strip(): the text from its first to its last non-whitespace character
Strip(s) ==
    LET inner == {i \in 1..Len(s) : ~IsSpace(s[i])}
    IN  IF inner = {} THEN <<>>
        ELSE SubSeq(s, CHOOSE i \in inner : \A j \in inner : i <= j,
                       CHOOSE i \in inner : \A j \in inner : j <= i)

\* re.sub(r'\s+', ' ', s): every maximal run of whitespace becomes one space
\* (its first character becomes the space, the others go)
CollapseWhitespace(s) ==
    LET marked == [i \in 1..Len(s) |->
                      IF ~IsSpace(s[i]) THEN s[i]
                      ELSE IF i > 1 /\ IsSpace(s[i - 1]) THEN -1
                      ELSE 32]
        Kept(c) == c # -1
    IN  SelectSeq(marked, Kept)

\* re.sub(r'[^\w\s...]', '', s): every character outside the allow-list is removed
RemoveDisallowed(s) == SelectSeq(s, IsAllowed)

\* DataProcessor.clean_text
clean_text(s) ==
    IF s = <<>> THEN <<>> ELSE RemoveDisallowed(CollapseWhitespace(Strip(s)))

-----------------------------------------------------------------------------
(* extract_keywords *)

\* the regex assertion \b at position i (between s[i-1] and s[i]) of s
WordBoundary(s, i) ==
    LET before == i > 1 /\ i - 1 <= Len(s) /\ IsWord(s[i - 1])
        after  == i <= Len(s) /\ IsWord(s[i])
    IN  before # after

\* the length of the run of [a-zA-Zа-яА-Я] characters of s that starts at i
RECURSIVE LetterRun(_, _)
LetterRun(s, i) ==
    IF i <= Len(s) /\ IsLetter(s[i]) THEN 1 + LetterRun(s, i + 1) ELSE 0

\* re.findall(r'\b[a-zA-Zа-яА-Я]{3,}\b', s): the matches, left to right.  The
\* class holds word characters only, so of the lengths the greedy {3,} may back
\* off to, only the whole run can end at a word boundary, and a match can only
\* start at a word boundary: the matches do not overlap.
FindAllWords(s) ==
    LET IsStart(i) == /\ WordBoundary(s, i)
                      /\ LetterRun(s, i) >= 3
                      /\ WordBoundary(s, i + LetterRun(s, i))
        starts == SelectSeq([i \in 1..Len(s) |-> i], IsStart)
    IN  [n \in 1..Len(starts) |->
            SubSeq(s, starts[n], starts[n] + LetterRun(s, starts[n]) - 1)]

\* keywords[:n]
Take(s, n) == SubSeq(s, 1, IF Len(s) < n THEN Len(s) ELSE n)

\* list(set(s)): the distinct entries of s.  Python leaves the order of a set
\* unspecified; the model lists them in the order of first occurrence.
RECURSIVE ListOfSet(_)
ListOfSet(s) ==
    IF s = <<>> THEN <<>>
    ELSE LET init == SubSeq(s, 1, Len(s) - 1)
             last == s[Len(s)]
         IN  IF \E i \in 1..Len(init) : init[i] = last
             THEN ListOfSet(init)
             ELSE ListOfSet(init) \o <<last>>

\* the slice bound of keywords[:10]
KeywordLimit == 10

\* the filter of extract_keywords: word not in stop_words and len(word) > 2
IsKeyword(word) == word \notin stop_words /\ Len(word) > 2

\* extract_keywords without the de-duplication
extract_keywords_NoSet(s) ==
    Take(SelectSeq(FindAllWords(Lower(s)), IsKeyword), KeywordLimit)

\* extract_keywords if it de-duplicated the filtered tokens before the slice
extract_keywords_DedupFirst(s) ==
    Take(ListOfSet(SelectSeq(FindAllWords(Lower(s)), IsKeyword)), KeywordLimit)

\* DataProcessor.extract_keywords
extract_keywords(s) ==
    ListOfSet(Take(SelectSeq(FindAllWords(Lower(s)), IsKeyword), KeywordLimit))

-----------------------------------------------------------------------------
(* categorize_message *)

\* keyword in text_lower
Contains(s, kw) ==
    \E i \in 0..(Len(s) - Len(kw)) :
        s[i + 1] = kw[1] /\ SubSeq(s, i + 1, i + Len(kw)) = kw

\* any(keyword in text_lower for keyword in keywords)
AnyKeyword(s, kws) == \E k \in 1..Len(kws) : Contains(s, kws[k])

\* the loop over categories.items() from entry i on, and the final return
RECURSIVE CategoryFrom(_, _)
CategoryFrom(s, i) ==
    IF i > Len(categories) THEN "Drugoe"
    ELSE IF AnyKeyword(s, categories[i].keywords) THEN categories[i].name
    ELSE CategoryFrom(s, i + 1)

\* the loop run from the last entry to the first: the last matching category wins
RECURSIVE CategoryFromLast(_, _)
CategoryFromLast(s, i) ==
    IF i < 1 THEN "Drugoe"
    ELSE IF AnyKeyword(s, categories[i].keywords) THEN categories[i].name
    ELSE CategoryFromLast(s, i - 1)

\* categorize_message with the priority order reversed
categorize_message_Reversed(s) == CategoryFromLast(Lower(s), Len(categories))

\* DataProcessor.categorize_message
categorize_message(s) == CategoryFrom(Lower(s), 1)

-----------------------------------------------------------------------------
(* The text functions applied to one text *)

RECURSIVE Concat(_)
Concat(fs) == IF fs = <<>> THEN <<>> ELSE Fragments[Head(fs)] \o Concat(Tail(fs))

\* the input texts: the concatenations of at most MaxFrags fragments
InputTexts ==
    {Concat(fs) : fs \in UNION {[1..n -> 1..Len(Fragments)] : n \in 0..MaxFrags}}

-----------------------------------------------------------------------------
(* Timestamps.  An instant is a whole number of minutes since                *)
(* 1970-01-01T00:00; no output of the program reads the seconds.            *)

\* 2024-01-15T14:30:00, a Monday
T_Scenario == 19737 * 1440 + 14 * 60 + 30
\* 2024-01-16T09:05:00
T_Later == 19738 * 1440 + 9 * 60 + 5
\* 2300-01-01T00:00:00, after pandas.Timestamp.max (2262-04-11)
T_FarFuture == 120529 * 1440
\* 2024-01-15T23:59:00: where the clock of a behaviour starts
ClockStart == 19737 * 1440 + 23 * 60 + 59

\* datetime.isoformat(): the ISO-8601 string of an instant
isoformat(t) == [kind |-> "iso", instant |-> t]
\* a timestamp string that is not ISO-8601
MalformedTimestamp == [kind |-> "malformed", instant |-> 0]
\* dict.get("timestamp") of a message that has none
NoneTimestamp == [kind |-> "None", instant |-> 0]

\* whether datetime.fromisoformat(ts) returns (it raises ValueError otherwise)
Parses(ts) == ts.kind = "iso"
\* datetime.fromisoformat(ts), for a string that parses
fromisoformat(ts) == ts.instant

\* strftime("%Y-%m-%d"): the calendar day, as days since 1970-01-01
FormatDate(t) == t \div 1440
\* strftime("%H:%M"): hour and minute, as minutes since midnight
FormatTime(t) == t % 1440
\* pd.to_datetime(date).dt.day_name(); 1970-01-01 was a Thursday
DayName(d) ==
    <<"Monday", "Tuesday", "Wednesday", "Thursday", "Friday", "Saturday",
      "Sunday">>[((d + 3) % 7) + 1]
\* pd.to_datetime("HH:MM").dt.hour
HourOf(hm) == hm \div 60
\* whether pd.to_datetime(date) raises OutOfBoundsDatetime: nanosecond
\* timestamps span 1677-09-21T00:12:43 .. 2262-04-11T23:47:16
OutOfBounds(d) == d > 106751 \/ d < -106751

-----------------------------------------------------------------------------
(* Messages.  A message is a Python dict: a function whose domain holds the *)
(* keys that are present.                                                   *)

\* dict.get(key, default)
Get(m, key, default) == IF key \in DOMAIN m THEN m[key] ELSE default

\* the messages the chat API may return for a group (the fields
\* WhatsAppClient.process_message reads; "timestamp" counts minutes here)
ApiMessages ==
    { [id |-> "a1", author |-> "Anna", text |-> [body |-> Text_Scenario],
       timestamp |-> T_Scenario, type |-> "text"],
      [id |-> "a2", type |-> "image"],
      [id |-> "a4", author |-> "Anna", text |-> [body |-> Text_Buy],
       timestamp |-> T_FarFuture, type |-> "text"] }

\* the batches a caller may hand to DataProcessor.process_messages directly
DirectMessages ==
    { [message_id |-> "1", author |-> "Anna", text |-> Text_Scenario,
       timestamp |-> isoformat(T_Scenario)],
      [message_id |-> "2", text |-> Text_Buy,
       timestamp |-> isoformat(T_Scenario), type |-> "text"],
      [message_id |-> "3", author |-> "Anna",
       timestamp |-> isoformat(T_Later), type |-> "image"],
      [message_id |-> "4", author |-> "Boris", text |-> Text_Emoji,
       type |-> "text"],
      [message_id |-> "5", author |-> "Boris", text |-> Text_Buy,
       timestamp |-> MalformedTimestamp, type |-> "text"] }

\* the sequences of at most MaxBatch elements of S
Batches(S) == UNION {[1..n -> S] : n \in 0..MaxBatch}

\* WhatsAppClient.process_message (from_phone and to_phone are never read)
process_message(message) ==
    [message_id |-> Get(message, "id", "None"),
     author     |-> Get(message, "author", "Unknown"),
     text       |-> Get(Get(message, "text", <<>>), "body", <<>>),
     timestamp  |-> isoformat(Get(message, "timestamp", 0)),
     type       |-> Get(message, "type", "text")]

\* list.sort(key=lambda x: x["timestamp"], reverse=True): a stable insertion
\* of each message before the first one with a smaller timestamp
RECURSIVE SortByTimestampDesc(_)
SortByTimestampDesc(s) ==
    IF s = <<>> THEN <<>>
    ELSE LET rest == SortByTimestampDesc(SubSeq(s, 1, Len(s) - 1))
             x    == s[Len(s)]
             k    == Cardinality({i \in 1..Len(rest) :
                         rest[i].timestamp.instant >= x.timestamp.instant})
         IN  SubSeq(rest, 1, k) \o <<x>> \o SubSeq(rest, k + 1, Len(rest))

\* WhatsAppClient.get_messages_from_multiple_groups, given what the groups returned
get_messages_from_multiple_groups(fetched) ==
    SortByTimestampDesc([i \in 1..Len(fetched) |-> process_message(fetched[i])])

-----------------------------------------------------------------------------
(* analyze_sentiment *)

\* DataProcessor.__init__: the client exists iff the API key is truthy
OpenAIKeys == {"None", "", "sk-key"}
DataProcessorInit(openai_api_key) ==
    IF openai_api_key \in {"None", ""} THEN "None" ELSE "client"

\* what one chat.completions.create request may end in: a response with a
\* content string, an exception of the transport or the service, or a response
\* of an unexpected shape (no choices, no content), which raises when read
ServiceOutcomes ==
    { [kind |-> "content", content |-> Str_Pozitivnaya],
      [kind |-> "content", content |-> Resp_Padded],
      [kind |-> "content", content |-> Resp_Other],
      [kind |-> "transport_error", content |-> <<>>],
      [kind |-> "bad_shape", content |-> <<>>] }

\* sentiment if sentiment in [three labels] else "Нейтральная"
LabelOf(sentiment) ==
    IF sentiment = Str_Pozitivnaya THEN "Pozitivnaya"
    ELSE IF sentiment = Str_Negativnaya THEN "Negativnaya"
    ELSE IF sentiment = Str_Neytralnaya THEN "Neytralnaya"
    ELSE "Neytralnaya"

\* the try block of analyze_sentiment without the .strip() of the content
SentimentOfOutcome_NoStrip(outcome) ==
    IF outcome.kind = "content" THEN LabelOf(outcome.content)
    ELSE "Ne_opredeleno"

\* the try block of analyze_sentiment: the label for one request's outcome;
\* any exception gives "Не определено"
SentimentOfOutcome(outcome) ==
    IF outcome.kind = "content" THEN LabelOf(Strip(outcome.content))
    ELSE "Ne_opredeleno"

\* whether an exception of the request leaves analyze_sentiment, if only the
\* exceptions of the transport were caught
Propagates_TransportOnly(outcome) == outcome.kind = "bad_shape"

\* whether an exception of the request leaves analyze_sentiment: the try block
\* holds the request and the reading of the response, and "except Exception"
\* catches every exception
Propagates(outcome) == FALSE

\* the requests of an analyze_sentiment that does not look at the client
RequestsOf_Always(client) == {<<o>> : o \in ServiceOutcomes}

\* the requests one analyze_sentiment call makes, each with its outcome: none
\* when there is no client (the early return), else exactly one
RequestsOf(client) ==
    IF client = "None" THEN {<<>>} ELSE {<<o>> : o \in ServiceOutcomes}

\* DataProcessor.analyze_sentiment, given the requests it made
analyze_sentiment(client, requests) ==
    IF client = "None" \/ requests = <<>> THEN "Ne_opredeleno"
    ELSE SentimentOfOutcome(requests[Len(requests)])

-----------------------------------------------------------------------------
(* process_messages: one record *)

\* the dict processed_message of process_messages.  Columns: "ID сообщения",
\* "Автор", "Текст сообщения", "Оригинальный текст", "Время", "Тип сообщения",
\* "Категория", "Ключевые слова", "Тональность", "Длина сообщения", "Дата",
\* "Время суток".  now1 and now2 are the values of the two datetime.now() calls.
BuildRecord(message, sentiment, now1, now2) ==
    LET txt == Get(message, "text", <<>>)
        cln == clean_text(txt)
    IN  [message_id    |-> Get(message, "message_id", "None"),
         author        |-> Get(message, "author", "None"),
         text          |-> cln,
         original_text |-> txt,
         time          |-> Get(message, "timestamp", NoneTimestamp),
         type          |-> Get(message, "type", "None"),
         category      |-> categorize_message(cln),
         keywords      |-> extract_keywords(cln),
         sentiment     |-> sentiment,
         length        |-> Len(cln),
         date          |-> FormatDate(fromisoformat(
                               Get(message, "timestamp", isoformat(now1)))),
         time_of_day   |-> FormatTime(fromisoformat(
                               Get(message, "timestamp", isoformat(now2))))]

\* whether building the record raises: datetime.fromisoformat rejects the timestamp
BuildRaises(message) ==
    "timestamp" \in DOMAIN message /\ ~Parses(message["timestamp"])

\* df["День недели"] and df["Час"], added to one row
AddColumns(row) ==
    [message_id    |-> row.message_id,
     author        |-> row.author,
     text          |-> row.text,
     original_text |-> row.original_text,
     time          |-> row.time,
     type          |-> row.type,
     category      |-> row.category,
     keywords      |-> row.keywords,
     sentiment     |-> row.sentiment,
     length        |-> row.length,
     date          |-> row.date,
     time_of_day   |-> row.time_of_day,
     weekday       |-> DayName(row.date),
     hour          |-> HourOf(row.time_of_day)]

\* whether pd.to_datetime(df["Дата"]) raises
FrameRaises(rows) == \E i \in 1..Len(rows) : OutOfBounds(rows[i].date)

\* the DataFrame of process_messages
DataFrame(rows) == [i \in 1..Len(rows) |-> AddColumns(rows[i])]

-----------------------------------------------------------------------------
(* generate_summary *)

\* df[name]: one column of the frame
Column(frame, name) == [i \in 1..Len(frame) |-> frame[i][name]]

\* df["Автор"].nunique(): the distinct authors, None not counted
NUnique(frame) ==
    Cardinality({frame[i].author : i \in 1..Len(frame)} \ {"None"})

\* df["Длина сообщения"].mean(): the sum of the lengths over their number
RECURSIVE SumOf(_)
SumOf(values) ==
    IF values = <<>> THEN 0 ELSE Head(values) + SumOf(Tail(values))
Mean(values) == [sum |-> SumOf(values), count |-> Len(values)]

\* Series.value_counts().to_dict() read as a mapping, if the first row were
\* not counted
value_counts_SkipFirst(values) ==
    LET present == {values[i] : i \in 1..Len(values)} \ {"None"}
    IN  [v \in present |-> Cardinality({i \in 2..Len(values) : values[i] = v})]

\* Series.value_counts().to_dict() read as a mapping: each value that occurs
\* in the column, None excepted (dropna), with the number of its rows
value_counts(values) ==
    LET present == {values[i] : i \in 1..Len(values)} \ {"None"}
    IN  [v \in present |-> Cardinality({i \in 1..Len(values) : values[i] = v})]

\* df.groupby(name).size().to_dict(): each value of the column with the number
\* of its rows (the columns "Час" and "День недели" hold no None)
groupby_size(values) ==
    LET present == {values[i] : i \in 1..Len(values)}
    IN  [v \in present |-> Cardinality({i \in 1..Len(values) : values[i] = v})]

\* the row counts head(5) keeps
TopAuthors == 5

\* value_counts().head(n): the index of the first n entries after
\* sort_values(ascending=False), whose default kind "quicksort" is not a stable
\* sort: the entries come by descending count, equal counts in any order the
\* sort of the build leaves them in.  The set of the indexes that may result.
RECURSIVE head(_, _, _)
head(counts, left, n) ==
    IF n = 0 \/ left = {} THEN {<<>>}
    ELSE LET top == {v \in left : \A w \in left : counts[w] <= counts[v]}
         IN  UNION {{<<v>> \o rest :
                        rest \in head(counts, left \ {v}, n - 1)} :
                    v \in top}

\* df["Автор"].value_counts().head(5): the author rankings that may result
MostActive(frame) ==
    LET counts == value_counts(Column(frame, "author"))
    IN  head(counts, DOMAIN counts, TopAuthors)

\* generate_summary of an empty frame: {}
NoSummary ==
    [empty |-> TRUE, total |-> 0, unique_authors |-> 0,
     mean_length |-> [sum |-> 0, count |-> 0], top_authors |-> <<>>,
     categories |-> <<>>, sentiments |-> <<>>, hours |-> <<>>, weekdays |-> <<>>]

\* DataProcessor.generate_summary: "Всего сообщений", "Уникальных авторов",
\* "Средняя длина сообщения", "Самые активные авторы" (in the order of the
\* dict, for the ranking the sort left), "Популярные категории",
\* "Распределение тональности", "Сообщения по часам", "Сообщения по дням недели"
generate_summary(frame, ranking) ==
    IF frame = <<>> THEN NoSummary
    ELSE [empty          |-> FALSE,
          total          |-> Len(frame),
          unique_authors |-> NUnique(frame),
          mean_length    |-> Mean(Column(frame, "length")),
          top_authors    |-> [i \in 1..Len(ranking) |->
                                [author |-> ranking[i],
                                 count  |-> value_counts(Column(frame, "author"))[ranking[i]]]],
          categories     |-> value_counts(Column(frame, "category")),
          sentiments     |-> value_counts(Column(frame, "sentiment")),
          hours          |-> groupby_size(Column(frame, "hour")),
          weekdays       |-> groupby_size(Column(frame, "weekday"))]

-----------------------------------------------------------------------------
(* GoogleSheetsClient *)

\* one worksheet: whether it exists, how many times it was created, its content
NoSheet == [exists |-> FALSE, created |-> 0, rows |-> <<>>, formatted |-> FALSE]
OldSheet == [exists |-> TRUE, created |-> 1, rows |-> <<>>, formatted |-> TRUE]

\* the Sheets API call at which a write may raise ("none": no call raises;
\* "open": open_by_key, worksheet or del_worksheet, before anything changed)
FailPoints == {"none", "open", "add", "update", "format"}

\* the try block of write_data_to_sheet and write_summary_to_sheet: open the
\* spreadsheet, delete the old worksheet, add a new one, update it, format it.
\* The worksheet as left behind when the call named by fail raises.
WriteSheet(sheet, rows, fail) ==
    IF fail = "open" THEN sheet
    ELSE IF fail = "add"
         THEN [sheet EXCEPT !.exists = FALSE, !.rows = <<>>, !.formatted = FALSE]
    ELSE IF fail = "update"
         THEN [exists |-> TRUE, created |-> sheet.created + 1, rows |-> <<>>,
               formatted |-> FALSE]
    ELSE IF fail = "format"
         THEN [exists |-> TRUE, created |-> sheet.created + 1, rows |-> rows,
               formatted |-> FALSE]
    ELSE [exists |-> TRUE, created |-> sheet.created + 1, rows |-> rows,
          formatted |-> TRUE]

\* what write_data_to_sheet and write_summary_to_sheet return
WriteOk(fail) == fail = "none"


-----------------------------------------------------------------------------
(* The text functions applied to one text (SpecText) *)

SummaryOff ==
    /\ permuted = <<>>
    /\ summary2 = NoSummary

SchedOff ==
    /\ entry = "none"
    /\ inbox = <<>>
    /\ last_run = NoneTimestamp
    /\ prev_run = NoneTimestamp
    /\ runs = 0
    /\ appended = "nothing"

BatchOff ==
    /\ openai_client = "None"
    /\ spreadsheet_id = "None"
    /\ caller = "none"
    /\ pc = "off"
    /\ messages = <<>>
    /\ processed_data = <<>>
    /\ df = <<>>
    /\ calls = <<>>
    /\ clock = ClockStart
    /\ reads = <<>>
    /\ summary = NoSummary
    /\ sheets = [messages |-> NoSheet, summary |-> NoSheet]
    /\ result = "none"
    /\ log = <<>>

InitText ==
    /\ text \in InputTexts
    /\ tpc = "input"
    /\ cleaned = <<>>
    /\ recleaned = <<>>
    /\ category = "none"
    /\ keywords = <<>>
    /\ BatchOff
    /\ SummaryOff
    /\ SchedOff

\* cleaned = clean_text(text)
CleanText ==
    /\ tpc = "input"
    /\ cleaned' = clean_text(text)
    /\ tpc' = "cleaned"
    /\ UNCHANGED <<text, recleaned, category, keywords, bvars, svars, rvars>>

\* clean_text applied to its own result
CleanAgain ==
    /\ tpc = "cleaned"
    /\ recleaned' = clean_text(cleaned)
    /\ tpc' = "recleaned"
    /\ UNCHANGED <<text, cleaned, category, keywords, bvars, svars, rvars>>

\* category = categorize_message(text)
Categorize ==
    /\ tpc = "recleaned"
    /\ category' = categorize_message(text)
    /\ tpc' = "categorized"
    /\ UNCHANGED <<text, cleaned, recleaned, keywords, bvars, svars, rvars>>

\* keywords = extract_keywords(text)
ExtractKeywords ==
    /\ tpc = "categorized"
    /\ keywords' = extract_keywords(text)
    /\ tpc' = "analysed"
    /\ UNCHANGED <<text, cleaned, recleaned, category, bvars, svars, rvars>>

NextText == CleanText \/ CleanAgain \/ Categorize \/ ExtractKeywords

SpecText == InitText /\ [][NextText]_vars

-----------------------------------------------------------------------------
(* One batch run (Spec) *)

TextOff ==
    /\ text = <<>>
    /\ tpc = "off"
    /\ cleaned = <<>>
    /\ recleaned = <<>>
    /\ category = "none"
    /\ keywords = <<>>

InitialSheets ==
    { [messages |-> NoSheet, summary |-> NoSheet],
      [messages |-> OldSheet, summary |-> OldSheet] }

Init ==
    /\ TextOff
    /\ SummaryOff
    /\ SchedOff
    /\ \E key \in OpenAIKeys : openai_client = DataProcessorInit(key)
    /\ spreadsheet_id = "None"
    /\ caller = "none"
    /\ pc = "idle"
    /\ messages = <<>>
    /\ processed_data = <<>>
    /\ df = <<>>
    /\ calls = <<>>
    /\ clock = ClockStart
    /\ reads = <<>>
    /\ summary = NoSummary
    /\ sheets \in InitialSheets
    /\ result = "none"
    /\ log = <<>>

\* the values a datetime.now() call may return when the last one returned lo
Now(lo) == lo..(ClockStart + MaxClock)

\* WhatsAppAgent.setup_spreadsheet: get_or_create_spreadsheet returns an id or raises
SetupSpreadsheet ==
    /\ pc = "idle"
    /\ spreadsheet_id = "None"
    /\ log = <<>>
    /\ \E ok \in BOOLEAN :
        /\ spreadsheet_id' = IF ok THEN "id" ELSE "None"
        /\ log' = IF ok THEN log ELSE Append(log, "setup_error")
    /\ UNCHANGED <<tvars, svars, rvars, openai_client, caller, pc, messages, processed_data, df,
                   calls, clock, reads, summary, sheets, result>>

\* a caller hands a batch to the process_messages of a DataProcessor that is
\* used on its own, without an agent
CallProcessMessages ==
    /\ pc = "idle"
    /\ spreadsheet_id = "None"
    /\ log = <<>>
    /\ sheets = [messages |-> NoSheet, summary |-> NoSheet]
    /\ \E batch \in Batches(DirectMessages) :
        /\ messages' = batch
        /\ caller' = "direct"
        /\ pc' = "processing"
    /\ UNCHANGED <<tvars, svars, rvars, openai_client, spreadsheet_id, processed_data, df, calls,
                   clock, reads, summary, sheets, result, log>>

\* collect_and_process_messages up to the call of process_messages: the fetch,
\* and the early return when no message came
CollectStart ==
    /\ pc = "idle"
    /\ \E fetched \in Batches(ApiMessages) :
        LET all_messages == get_messages_from_multiple_groups(fetched)
        IN  /\ caller' = "collect"
            /\ messages' = all_messages
            /\ IF all_messages = <<>>
               THEN /\ pc' = "done"
                    /\ result' = "False"
                    /\ log' = Append(log, "warning_no_messages")
               ELSE /\ pc' = "processing"
                    /\ UNCHANGED <<result, log>>
    /\ UNCHANGED <<tvars, svars, rvars, openai_client, spreadsheet_id, processed_data, df, calls,
                   clock, reads, summary, sheets>>

\* the except clause of collect_and_process_messages, if it logged the error
\* and went on to return True
Raise_ReturnsTrue ==
    /\ IF caller = "collect"
       THEN /\ pc' = "done"
            /\ result' = "True"
            /\ log' = Append(log, "collect_error")
       ELSE /\ pc' = "raised"
            /\ result' = "exception"
            /\ UNCHANGED log
    /\ UNCHANGED <<tvars, svars, rvars, openai_client, spreadsheet_id, caller, messages,
                   processed_data, df, summary, sheets>>

\* an exception leaves process_messages: it reaches the caller, or the except
\* clause of collect_and_process_messages, which logs it and returns False
Raise ==
    /\ IF caller = "collect"
       THEN /\ pc' = "done"
            /\ result' = "False"
            /\ log' = Append(log, "collect_error")
       ELSE /\ pc' = "raised"
            /\ result' = "exception"
            /\ UNCHANGED log
    /\ UNCHANGED <<tvars, svars, rvars, openai_client, spreadsheet_id, caller, messages,
                   processed_data, df, summary, sheets>>

\* the loop body of process_messages for the next message, when it returns
BuildOne ==
    /\ pc = "processing"
    /\ Len(processed_data) < Len(messages)
    /\ LET message == messages[Len(processed_data) + 1]
       IN  /\ ~BuildRaises(message)
           /\ \E requests \in RequestsOf(openai_client) :
                /\ \A k \in 1..Len(requests) : ~Propagates(requests[k])
                /\ \E now1 \in Now(clock) : \E now2 \in Now(now1) :
                    /\ processed_data' = Append(processed_data,
                           BuildRecord(message,
                               analyze_sentiment(openai_client, requests),
                               now1, now2))
                    /\ calls' = Append(calls, requests)
                    /\ reads' = Append(reads,
                           IF "timestamp" \in DOMAIN message THEN <<>>
                           ELSE <<now1, now2>>)
                    /\ clock' = now2
    /\ UNCHANGED <<tvars, svars, rvars, openai_client, spreadsheet_id, caller, pc, messages, df,
                   summary, sheets, result, log>>

\* the loop body of process_messages for the next message, when it raises:
\* the sentiment is asked for first, then the timestamp is parsed
BuildRaise ==
    /\ pc = "processing"
    /\ Len(processed_data) < Len(messages)
    /\ LET message == messages[Len(processed_data) + 1]
       IN  \E requests \in RequestsOf(openai_client) :
                /\ \/ BuildRaises(message)
                   \/ \E k \in 1..Len(requests) : Propagates(requests[k])
                /\ \E now1 \in Now(clock) :
                    /\ calls' = Append(calls, requests)
                    /\ reads' = Append(reads, <<>>)
                    /\ clock' = now1
    /\ Raise

\* the end of process_messages when pd.to_datetime raises
FrameRaise ==
    /\ pc = "processing"
    /\ Len(processed_data) = Len(messages)
    /\ FrameRaises(processed_data)
    /\ Raise
    /\ UNCHANGED <<calls, clock, reads>>

\* the end of process_messages called directly: the DataFrame is returned
ReturnDataFrame ==
    /\ pc = "processing"
    /\ caller = "direct"
    /\ Len(processed_data) = Len(messages)
    /\ ~FrameRaises(processed_data)
    /\ df' = DataFrame(processed_data)
    /\ pc' = "returned"
    /\ result' = "df"
    /\ UNCHANGED <<tvars, svars, rvars, openai_client, spreadsheet_id, caller, messages,
                   processed_data, calls, clock, reads, summary, sheets, log>>

\* the log lines of the two writes and of collect_and_process_messages after them
WriteLog(fail1, fail2) ==
    (IF WriteOk(fail1) THEN <<>> ELSE <<"write_error">>)
    \o (IF WriteOk(fail2) THEN <<>> ELSE <<"summary_error">>)
    \o <<"info_updated">>

\* collect_and_process_messages from the return of process_messages on: the
\* summary, the two writes (their results are not read) and return True
CollectFinish ==
    /\ pc = "processing"
    /\ caller = "collect"
    /\ Len(processed_data) = Len(messages)
    /\ ~FrameRaises(processed_data)
    /\ df' = DataFrame(processed_data)
    /\ \E ranking \in MostActive(df') : summary' = generate_summary(df', ranking)
    /\ IF spreadsheet_id # "None"
       THEN \E fail1 \in FailPoints : \E fail2 \in FailPoints :
            \E now3 \in Now(clock) :
                /\ sheets' =
                     [messages |-> WriteSheet(sheets.messages, df', fail1),
                      summary  |-> WriteSheet(sheets.summary,
                                      <<[summary |-> summary', updated |-> now3]>>,
                                      fail2)]
                /\ clock' = IF fail2 \in {"none", "update", "format"}
                            THEN now3 ELSE clock
                /\ log' = log \o WriteLog(fail1, fail2)
       ELSE UNCHANGED <<sheets, clock, log>>
    /\ pc' = "done"
    /\ result' = "True"
    /\ UNCHANGED <<tvars, svars, rvars, openai_client, spreadsheet_id, caller, messages,
                   processed_data, calls, reads>>

Next ==
    \/ SetupSpreadsheet
    \/ CallProcessMessages
    \/ CollectStart
    \/ BuildOne
    \/ BuildRaise
    \/ FrameRaise
    \/ ReturnDataFrame
    \/ CollectFinish

Spec == Init /\ [][Next]_vars

-----------------------------------------------------------------------------
(* generate_summary applied to a frame (SpecSummary) *)

\* the largest number of rows of a frame
MaxRows == 7
\* the largest number of rows of a frame that is also summarised reordered
MaxShuffle == 3

\* the authors of the rows, numbered in the order of their first row
AuthorNames ==
    <<"Anna", "Boris", "Clara", "David", "Elena", "Fedor", "Galina", "Ivan", "Kira">>

\* the texts, the timestamps (Monday 14:30, Tuesday 09:05, Monday 15:05) and
\* the outcomes of the sentiment request the rows are built from
SummaryTexts == <<Text_Scenario, Text_Buy, Text_Emoji>>
SummaryTimes == <<T_Scenario, T_Later, T_Scenario + 35>>
SummaryOutcomes ==
    <<[kind |-> "content", content |-> Str_Pozitivnaya],
      [kind |-> "transport_error", content |-> <<>>]>>

\* the message of author k; author 0 is a message without the key "author"
SummaryMessage(k) ==
    LET body == [message_id |-> "m",
                 text       |-> SummaryTexts[(k % 3) + 1],
                 timestamp  |-> isoformat(SummaryTimes[(k % 3) + 1]),
                 type       |-> "text"]
    IN  IF k = 0 THEN body ELSE ("author" :> AuthorNames[k]) @@ body

\* the row process_messages builds for the message of author k
SummaryRows ==
    [k \in 0..MaxRows |->
        AddColumns(BuildRecord(SummaryMessage(k),
                       analyze_sentiment("client", <<SummaryOutcomes[(k % 2) + 1]>>),
                       ClockStart, ClockStart))]

\* the sequences of n author numbers in which an author is first seen only
\* after every author of a smaller number
RECURSIVE AuthorSeqs(_)
AuthorSeqs(n) ==
    IF n = 0 THEN {<<>>}
    ELSE UNION {{Append(s, k) :
                    k \in 0..(1 + Cardinality({s[i] : i \in 1..Len(s)} \ {0}))} :
                s \in AuthorSeqs(n - 1)}

\* the frames process_messages may return: at most MaxRows rows
SummaryFrames ==
    {[i \in 1..Len(s) |-> SummaryRows[s[i]]] :
        s \in UNION {AuthorSeqs(n) : n \in 0..MaxRows}}

InitSummary ==
    /\ TextOff
    /\ SchedOff
    /\ openai_client = "client"
    /\ spreadsheet_id = "None"
    /\ caller = "direct"
    /\ pc = "frame"
    /\ messages = <<>>
    /\ processed_data = <<>>
    /\ df \in SummaryFrames
    /\ calls = <<>>
    /\ clock = ClockStart
    /\ reads = <<>>
    /\ summary = NoSummary
    /\ sheets = [messages |-> NoSheet, summary |-> NoSheet]
    /\ result = "none"
    /\ log = <<>>
    /\ SummaryOff

\* summary = generate_summary(df)
Summarize ==
    /\ pc = "frame"
    /\ \E ranking \in MostActive(df) : summary' = generate_summary(df, ranking)
    /\ pc' = "summarized"
    /\ UNCHANGED <<tvars, rvars, openai_client, spreadsheet_id, caller, messages,
                   processed_data, df, calls, clock, reads, sheets, result, log,
                   permuted, summary2>>

\* generate_summary of the same rows in another order
SummarizePermuted ==
    /\ pc = "summarized"
    /\ Len(df) <= MaxShuffle
    /\ \E p \in Permutations(1..Len(df)) :
        /\ permuted' = [i \in 1..Len(df) |-> df[p[i]]]
        /\ \E ranking \in MostActive(permuted') :
               summary2' = generate_summary(permuted', ranking)
    /\ pc' = "compared"
    /\ UNCHANGED <<tvars, rvars, openai_client, spreadsheet_id, caller, messages,
                   processed_data, df, calls, clock, reads, summary, sheets, result,
                   log>>

NextSummary == Summarize \/ SummarizePermuted

SpecSummary == InitSummary /\ [][NextSummary]_vars

-----------------------------------------------------------------------------
(* The scheduled mode (SpecSched): run_scheduled sets the spreadsheet up,   *)
(* runs collect_and_process_messages once and then get_new_messages_only   *)
(* at every interval.  The agent has no OpenAI key: every sentiment is     *)
(* "Не определено".                                                        *)

\* the largest number of runs of get_new_messages_only
MaxRuns == 2

\* 2024-01-14T14:30, before every message: the content of a last_run.txt that
\* an earlier process left behind
T_EarlierRun == T_Scenario - 1440

\* what a fetch returns: the messages the groups hold, or nothing when the
\* request fails (get_group_messages logs the failure and returns [])
Fetches(held) == {held, <<>>}

\* msg.get('timestamp', '') > last_timestamp: the strings are ISO-8601 dates
\* of four-digit years, which compare as their instants
IsoAfter(a, b) == a.instant > b.instant

\* the filter of get_new_messages_only: every message when there is no
\* marker, the messages after the marker otherwise
NewMessages(all_messages, last_timestamp) ==
    LET Newer(msg) == IsoAfter(Get(msg, "timestamp", isoformat(0)), last_timestamp)
    IN  IF last_timestamp.kind = "None" THEN all_messages
        ELSE SelectSeq(all_messages, Newer)

\* the records process_messages builds for a batch, for an agent without an
\* OpenAI client; now is what the datetime.now() calls return
ProcessedData(batch, now) ==
    [i \in 1..Len(batch) |->
        BuildRecord(batch[i], analyze_sentiment("None", <<>>), now, now)]

\* whether process_messages raises on the batch
ProcessRaises(batch, now) ==
    \/ \E i \in 1..Len(batch) : BuildRaises(batch[i])
    \/ FrameRaises(ProcessedData(batch, now))

\* the Sheets API call at which append_data_to_sheet may raise: for a
\* worksheet that exists open_by_key/worksheet ("open") or append_rows
\* ("append"); for one that does not, the calls of write_data_to_sheet
AppendFailPoints(sheet) ==
    IF sheet.exists THEN {"none", "open", "append"} ELSE FailPoints

\* append_data_to_sheet: the worksheet as it is left
AppendSheet(sheet, rows, fail) ==
    IF ~sheet.exists THEN WriteSheet(sheet, rows, fail)
    ELSE IF fail = "none" THEN [sheet EXCEPT !.rows = sheet.rows \o rows]
    ELSE sheet

\* what append_data_to_sheet returns
AppendOk(fail) == fail = "none"

InitSched ==
    /\ TextOff
    /\ SummaryOff
    /\ openai_client = "None"
    /\ spreadsheet_id = "None"
    /\ caller = "none"
    /\ entry \in {"run_scheduled", "get_new_messages_only"}
    /\ pc = IF entry = "run_scheduled" THEN "start" ELSE "waiting"
    /\ messages = <<>>
    /\ processed_data = <<>>
    /\ df = <<>>
    /\ calls = <<>>
    /\ clock = ClockStart
    /\ reads = <<>>
    /\ summary = NoSummary
    /\ sheets \in InitialSheets
    /\ result = "none"
    /\ log = <<>>
    /\ inbox = <<>>
    /\ last_run \in {NoneTimestamp, isoformat(T_EarlierRun)}
    /\ prev_run = NoneTimestamp
    /\ runs = 0
    /\ appended = "nothing"

\* a message is posted in one of the groups
Receive ==
    /\ pc \in {"start", "collect", "waiting"}
    /\ Len(inbox) < MaxBatch
    /\ \E m \in ApiMessages \ {inbox[i] : i \in 1..Len(inbox)} :
           inbox' = Append(inbox, m)
    /\ UNCHANGED <<tvars, svars, bvars, entry, last_run, prev_run, runs, appended>>

\* run_scheduled up to the first run: setup_spreadsheet, and the return when
\* it failed
RunScheduledSetup ==
    /\ pc = "start"
    /\ \E ok \in BOOLEAN :
        /\ spreadsheet_id' = IF ok THEN "id" ELSE "None"
        /\ log' = IF ok THEN log ELSE Append(log, "setup_error")
        /\ pc' = IF ok THEN "collect" ELSE "stopped"
    /\ UNCHANGED <<tvars, svars, rvars, openai_client, caller, messages,
                   processed_data, df, calls, clock, reads, summary, sheets, result>>

\* the first run of run_scheduled: collect_and_process_messages as a whole
InitialCollect ==
    /\ pc = "collect"
    /\ caller' = "collect"
    /\ pc' = "waiting"
    /\ \E fetched \in Fetches(inbox) : \E now \in Now(clock) :
        LET all_messages == get_messages_from_multiple_groups(fetched)
        IN  /\ messages' = all_messages
            /\ IF all_messages = <<>>
               THEN /\ result' = "False"
                    /\ log' = Append(log, "warning_no_messages")
                    /\ UNCHANGED <<processed_data, df, summary, sheets, clock>>
               ELSE IF ProcessRaises(all_messages, now)
               THEN /\ result' = "False"
                    /\ log' = Append(log, "collect_error")
                    /\ clock' = now
                    /\ UNCHANGED <<processed_data, df, summary, sheets>>
               ELSE /\ processed_data' = ProcessedData(all_messages, now)
                    /\ df' = DataFrame(processed_data')
                    /\ \E ranking \in MostActive(df') :
                           summary' = generate_summary(df', ranking)
                    /\ result' = "True"
                    /\ IF spreadsheet_id # "None"
                       THEN \E fail1 \in FailPoints : \E fail2 \in FailPoints :
                            \E now3 \in Now(now) :
                                /\ sheets' =
                                     [messages |-> WriteSheet(sheets.messages, df', fail1),
                                      summary  |-> WriteSheet(sheets.summary,
                                                      <<[summary |-> summary',
                                                         updated |-> now3]>>,
                                                      fail2)]
                                /\ clock' = IF fail2 \in {"none", "update", "format"}
                                            THEN now3 ELSE now
                                /\ log' = log \o WriteLog(fail1, fail2)
                       ELSE /\ clock' = now
                            /\ UNCHANGED <<sheets, log>>
    /\ UNCHANGED <<tvars, svars, rvars, openai_client, spreadsheet_id, calls, reads>>

\* one run of get_new_messages_only, as a whole
GetNewMessagesOnly ==
    /\ pc = "waiting"
    /\ runs < MaxRuns
    /\ runs' = runs + 1
    /\ prev_run' = last_run
    /\ caller' = "new"
    /\ \E fetched \in Fetches(inbox) : \E now \in Now(clock) :
        LET all_messages == get_messages_from_multiple_groups(fetched)
            new_messages == NewMessages(all_messages, last_run)
        IN  /\ messages' = new_messages
            /\ IF new_messages = <<>>
               THEN /\ appended' = "nothing"
                    /\ last_run' = isoformat(now)
                    /\ clock' = now
                    /\ UNCHANGED <<processed_data, df, sheets, log>>
               ELSE IF ProcessRaises(new_messages, now)
               THEN /\ appended' = "no"
                    /\ log' = Append(log, "new_messages_error")
                    /\ clock' = now
                    /\ UNCHANGED <<processed_data, df, sheets, last_run>>
               ELSE /\ processed_data' = ProcessedData(new_messages, now)
                    /\ df' = DataFrame(processed_data')
                    /\ IF spreadsheet_id # "None"
                       THEN \E fail \in AppendFailPoints(sheets.messages) :
                            /\ sheets' = [sheets EXCEPT !.messages =
                                              AppendSheet(sheets.messages, df', fail)]
                            /\ appended' = IF AppendOk(fail) THEN "yes" ELSE "no"
                            /\ log' = log
                                      \o (IF AppendOk(fail) THEN <<>> ELSE <<"append_error">>)
                                      \o <<"info_added">>
                       ELSE /\ appended' = "no"
                            /\ log' = Append(log, "info_added")
                            /\ UNCHANGED sheets
                    /\ \E now2 \in Now(now) :
                        /\ last_run' = isoformat(now2)
                        /\ clock' = now2
    /\ UNCHANGED <<tvars, svars, entry, inbox, openai_client, spreadsheet_id, pc,
                   calls, reads, summary, result>>

NextSched == Receive \/ RunScheduledSetup \/ InitialCollect \/ GetNewMessagesOnly

SpecSched == InitSched /\ [][NextSched]_vars

-----------------------------------------------------------------------------
(* Claims about the text functions (SpecText) *)

\* C1 (as stated): clean_text is idempotent: for every text,
\* clean_text(clean_text(s)) = clean_text(s).
C1_CleanTextIdempotent ==
    tpc \in {"recleaned", "categorized", "analysed"} => recleaned = cleaned

\* the six categories that have keywords, in the order the claim declares
DeclaredOrder ==
    <<"Prodazhi_Reklama", "Voprosy", "Informatsiya_Novosti", "Obshchenie_Chat",
      "Ssylki_Media", "Rabota_Biznes">>

\* the positions in DeclaredOrder of the categories with a keyword in s
MatchingCategories(s) ==
    {i \in 1..Len(DeclaredOrder) :
        \E c \in 1..Len(categories) :
            /\ categories[c].name = DeclaredOrder[i]
            /\ \E k \in 1..Len(categories[c].keywords) :
                   Contains(s, categories[c].keywords[k])}

\* C3: for every text, categorize_message returns one label of the fixed set of
\* seven: the first category of the declared order with a keyword that is a
\* substring of the lower-cased text, or "Другое" when no category has one.
C3_FirstMatchingCategory ==
    tpc \in {"categorized", "analysed"} =>
        LET matching == MatchingCategories(Lower(text))
        IN  /\ category \in
                 {DeclaredOrder[i] : i \in 1..Len(DeclaredOrder)} \cup {"Drugoe"}
            /\ matching = {} => category = "Drugoe"
            /\ matching # {} =>
                 \E i \in matching :
                     /\ category = DeclaredOrder[i]
                     /\ \A j \in matching : i <= j

\* C3 witness: a text with a Sales keyword and a Questions keyword is
\* classified as Sales.
C3_Witness ==
    /\ tpc = "analysed"
    /\ {1, 2} \subseteq MatchingCategories(Lower(text))
    /\ category = "Prodazhi_Reklama"

\* C4: for every text, extract_keywords returns at most 10 entries, no entry
\* twice, no stop-word and no token of length <= 2.
C4_KeywordsBounded ==
    tpc = "analysed" =>
        /\ Len(keywords) \in 0..10
        /\ \A i, j \in 1..Len(keywords) : i # j => keywords[i] # keywords[j]
        /\ \A i \in 1..Len(keywords) :
               keywords[i] \notin stop_words /\ Len(keywords[i]) > 2

\* C4 witness: a text with more than ten tokens, a stop-word and a repeated
\* token among them, gives ten keywords.
C4_Witness ==
    /\ tpc = "analysed"
    /\ LET words == FindAllWords(Lower(text))
       IN  /\ Len(words) > 10
           /\ \E i \in 1..Len(words) : words[i] \in stop_words
           /\ \E i, j \in 1..Len(words) : i < j /\ words[i] = words[j]
    /\ Len(keywords) = 10

\* the tokens of the text that pass the stop-word and length filter, in text order
Candidates == SelectSeq(FindAllWords(Lower(text)), IsKeyword)
\* C12: extract_keywords cuts before it de-duplicates: the keywords are exactly
\* the distinct tokens among the first 10 filtered tokens of the text, each
\* once, whatever distinct tokens follow them.
C12_TruncateThenDedupe ==
    tpc = "analysed" =>
        LET candidates == Candidates
            first == {candidates[i] : i \in {j \in 1..Len(candidates) : j <= 10}}
        IN  /\ {keywords[i] : i \in 1..Len(keywords)} = first
            /\ Len(keywords) = Cardinality(first)

\* C12 witness: a token is repeated among the first 10 filtered tokens, a
\* token that is not among them follows, and fewer than 10 keywords result.
C12_Witness ==
    /\ tpc = "analysed"
    /\ Len(keywords) < 10
    /\ Len(keywords) > 0
    /\ LET candidates == Candidates
       IN  /\ Len(candidates) > 10
           /\ \E i, j \in 1..10 : i < j /\ candidates[i] = candidates[j]
           /\ \E k \in 11..Len(candidates) :
                  \A i \in 1..10 : candidates[k] # candidates[i]

-----------------------------------------------------------------------------
(* Claims about generate_summary (SpecSummary) *)

\* the authors of the rows of frame, and the rows of one author
AuthorsOf(frame) == {frame[i].author : i \in 1..Len(frame)} \ {"None"}
RowsOf(frame, a) == {i \in 1..Len(frame) : frame[i].author = a}
\* the first row of author a
FirstRowOf(frame, a) ==
    CHOOSE i \in RowsOf(frame, a) : \A j \in RowsOf(frame, a) : i <= j

\* C11 (as stated): for a non-empty frame, "Самые активные авторы" holds at
\* most 5 authors of the frame, no author twice, each with the number of its
\* rows, by descending count and, among equal counts, in the order of the
\* authors' first rows; no author left out has more rows than one included.
C11_TopAuthorsStable ==
    (pc \in {"summarized", "compared"} /\ df # <<>>) =>
        LET top      == summary.top_authors
            included == {top[i].author : i \in 1..Len(top)}
        IN  /\ Len(top) <= 5
            /\ included \subseteq AuthorsOf(df)
            /\ Cardinality(included) = Len(top)
            /\ \A i \in 1..Len(top) :
                   top[i].count = Cardinality(RowsOf(df, top[i].author))
            /\ \A i, j \in 1..Len(top) :
                   i < j =>
                       \/ top[i].count > top[j].count
                       \/ /\ top[i].count = top[j].count
                          /\ FirstRowOf(df, top[i].author) < FirstRowOf(df, top[j].author)
            /\ \A a \in AuthorsOf(df) \ included :
                   \A i \in 1..Len(top) : Cardinality(RowsOf(df, a)) <= top[i].count

\* the number of the rows of frame whose column name holds v
CountOf(frame, name, v) == Cardinality({i \in 1..Len(frame) : frame[i][name] = v})
\* whether dist lists exactly the values of column name, each with its count
ExactCounts(dist, frame, name) ==
    /\ DOMAIN dist = {frame[i][name] : i \in 1..Len(frame)}
    /\ \A v \in DOMAIN dist : dist[v] = CountOf(frame, name, v)

\* C13: the total, the number of authors and the four distributions of
\* generate_summary are the same for the rows of a frame in any order, and each
\* distribution lists exactly the values that occur in its column, each with
\* the number of its rows.
C13_OrderFree ==
    /\ (pc \in {"summarized", "compared"} /\ df # <<>>) =>
           /\ summary.total = Len(df)
           /\ summary.unique_authors = Cardinality(AuthorsOf(df))
           /\ ExactCounts(summary.categories, df, "category")
           /\ ExactCounts(summary.sentiments, df, "sentiment")
           /\ ExactCounts(summary.hours, df, "hour")
           /\ ExactCounts(summary.weekdays, df, "weekday")
    /\ pc = "compared" =>
           /\ summary2.total = summary.total
           /\ summary2.unique_authors = summary.unique_authors
           /\ summary2.categories = summary.categories
           /\ summary2.sentiments = summary.sentiments
           /\ summary2.hours = summary.hours
           /\ summary2.weekdays = summary.weekdays

\* C13 witness: three rows of two hours and two weekdays were summarised in
\* two different orders, and one category has two of the rows.
C13_Witness ==
    /\ pc = "compared"
    /\ Len(df) = 3
    /\ permuted # df
    /\ permuted[1] # df[1]
    /\ Cardinality(DOMAIN summary2.hours) >= 2
    /\ Cardinality(DOMAIN summary2.weekdays) = 2
    /\ \E c \in DOMAIN summary2.categories : summary2.categories[c] = 2

-----------------------------------------------------------------------------
(* Claims about a batch run (Spec) *)

\* the message of the scenario: author Anna, the text
\* "Hello, how are you? http://x.com", the timestamp 2024-01-15T14:30:00
ScenarioMessage ==
    [message_id |-> "1", author |-> "Anna", text |-> Text_Scenario,
     timestamp |-> isoformat(T_Scenario)]

\* C2 (as stated): for the scenario message alone, process_messages gives one
\* record whose category is "Ссылки/Медиа": the "http" match decides.
C2_ScenarioIsLinks ==
    (pc = "returned" /\ messages = <<ScenarioMessage>>) =>
        Len(df) = 1 /\ df[1].category = "Ssylki_Media"

\* C2 (amended): for the scenario message alone, process_messages gives one
\* record, dated 2024-01-15, hour 14, a Monday, whose category is "Вопросы":
\* the text holds "?", and Questions is declared before Links/Media.
C2_ScenarioIsQuestions ==
    (pc = "returned" /\ messages = <<ScenarioMessage>>) =>
        /\ Len(df) = 1
        /\ df[1].category = "Voprosy"
        /\ df[1].date = 19737
        /\ df[1].hour = 14
        /\ df[1].weekday = "Monday"

\* C2 witness: process_messages has returned for the scenario message alone.
C2_Witness ==
    pc = "returned" /\ messages = <<ScenarioMessage>> /\ Len(df) = 1

\* C5: without an OpenAI client, analyze_sentiment returns "Не определено" for
\* every message of every batch and no request is made.
C5_NoClientNoRequest ==
    openai_client = "None" =>
        /\ \A i \in 1..Len(calls) : calls[i] = <<>>
        /\ \A i \in 1..Len(processed_data) :
               processed_data[i].sentiment = "Ne_opredeleno"
        /\ \A i \in 1..Len(df) : df[i].sentiment = "Ne_opredeleno"

\* C5 witness: two messages were processed without a client.
C5_Witness ==
    /\ openai_client = "None"
    /\ pc = "returned"
    /\ Len(df) = 2
    /\ df[1].text # <<>>

\* the three labels, as the service sends them and as the record holds them
ExpectedLabels ==
    { <<Str_Pozitivnaya, "Pozitivnaya">>, <<Str_Negativnaya, "Negativnaya">>,
      <<Str_Neytralnaya, "Neytralnaya">> }

FourLabels == {"Pozitivnaya", "Negativnaya", "Neytralnaya", "Ne_opredeleno"}

\* C6 (as stated): with a client, each analyze_sentiment call makes exactly one
\* request; when it succeeds the result is the response if the response is
\* exactly one of the three labels, and "Нейтральная" for any other response;
\* the result is one of the four labels.
C6_ExactLabelOrNeutral ==
    openai_client = "client" =>
        /\ \A i \in 1..Len(calls) : Len(calls[i]) = 1
        /\ \A i \in 1..Len(processed_data) :
               LET outcome == calls[i][1]
                   label   == processed_data[i].sentiment
               IN  /\ label \in FourLabels
                   /\ outcome.kind = "content" =>
                        IF \E e \in ExpectedLabels : outcome.content = e[1]
                        THEN <<outcome.content, label>> \in ExpectedLabels
                        ELSE label = "Neytralnaya"

\* C6 (amended): with a client, each analyze_sentiment call makes exactly one
\* request; when it succeeds the result is the label that the response, with
\* the whitespace around it stripped, is equal to, and "Нейтральная" when the
\* stripped response is none of the three labels; the result is one of the
\* four labels.
C6_StrippedLabelOrNeutral ==
    openai_client = "client" =>
        /\ \A i \in 1..Len(calls) : Len(calls[i]) = 1
        /\ \A i \in 1..Len(processed_data) :
               LET outcome == calls[i][1]
                   label   == processed_data[i].sentiment
               IN  /\ label \in FourLabels
                   /\ outcome.kind = "content" =>
                        IF \E e \in ExpectedLabels : Strip(outcome.content) = e[1]
                        THEN <<Strip(outcome.content), label>> \in ExpectedLabels
                        ELSE label = "Neytralnaya"

\* C6 witness: a response that is a label between whitespace gave that label,
\* and a response that is no label gave "Нейтральная".
C6_Witness ==
    /\ openai_client = "client"
    /\ Len(processed_data) = 2
    /\ calls[1] = <<[kind |-> "content", content |-> Resp_Padded]>>
    /\ processed_data[1].sentiment = "Pozitivnaya"
    /\ calls[2] = <<[kind |-> "content", content |-> Resp_Other]>>
    /\ processed_data[2].sentiment = "Neytralnaya"

\* whether the request made for message i failed (an exception of the
\* transport or the service, or a response of an unexpected shape)
RequestFailed(i) == calls[i] # <<>> /\ calls[i][1].kind # "content"

\* the label a successful response gives: a label between whitespace, or
\* "Нейтральная"
LabelOfResponse(content) ==
    IF \E e \in ExpectedLabels : Strip(content) = e[1]
    THEN (CHOOSE e \in ExpectedLabels : Strip(content) = e[1])[2]
    ELSE "Neytralnaya"

\* whether the timestamp of message m (absent: the current time) fails to
\* parse or lies outside the range of pandas
TimestampFails(m) ==
    "timestamp" \in DOMAIN m /\
        (m["timestamp"].kind # "iso" \/ OutOfBounds(m["timestamp"].instant \div 1440))

\* the texts the messages of a batch may carry (an absent text reads as "")
MessageTexts ==
    {Get(m, "text", <<>>) : m \in DirectMessages \cup {process_message(a) : a \in ApiMessages}}

\* what the text of a message alone gives its record: the cleaned text, and the
\* category and the keywords of the cleaned text
TextFieldsOf ==
    [t \in MessageTexts |->
        LET cln == clean_text(t)
        IN  [text     |-> cln,
             category |-> categorize_message(cln),
             keywords |-> extract_keywords(cln)]]

\* C7: a failed sentiment request is never propagated: an exception leaves
\* process_messages only for a timestamp; when it returns there is one record
\* per message, in input order; the record of a message whose request failed
\* has sentiment "Не определено"; and every record is what its own message and
\* the outcome of its own request give, whatever happened to the other requests.
C7_SentimentFailureContained ==
    /\ (pc = "raised" \/ (pc = "done" /\ result = "False" /\ messages # <<>>)) =>
           \E i \in 1..Len(messages) : TimestampFails(messages[i])
    /\ pc \in {"returned", "done"} /\ result \in {"df", "True"} =>
           /\ Len(df) = Len(messages)
           /\ \A i \in 1..Len(df) :
                  df[i].message_id = Get(messages[i], "message_id", "None")
    /\ Len(processed_data) <= Len(messages)
    /\ \A i \in 1..Len(processed_data) :
           LET m == messages[i]
               r == processed_data[i]
           IN  /\ RequestFailed(i) => r.sentiment = "Ne_opredeleno"
               /\ ~RequestFailed(i) =>
                      r.sentiment = IF calls[i] = <<>> THEN "Ne_opredeleno"
                                    ELSE LabelOfResponse(calls[i][1].content)
               /\ r.message_id = Get(m, "message_id", "None")
               /\ r.author = Get(m, "author", "None")
               /\ r.original_text = Get(m, "text", <<>>)
               /\ r.original_text \in MessageTexts
               /\ r.text = TextFieldsOf[r.original_text].text
               /\ r.category = TextFieldsOf[r.original_text].category
               /\ r.keywords = TextFieldsOf[r.original_text].keywords
               /\ r.length = Len(r.text)
               /\ "timestamp" \in DOMAIN m =>
                      /\ r.time = m["timestamp"]
                      /\ r.date = FormatDate(m["timestamp"].instant)
                      /\ r.time_of_day = FormatTime(m["timestamp"].instant)

\* C7 witness: process_messages returned two records; the request of the first
\* message failed, the second has its own label.
C7_Witness ==
    /\ openai_client = "client"
    /\ pc = "returned"
    /\ Len(df) = 2
    /\ calls[1][1].kind = "transport_error"
    /\ df[1].sentiment = "Ne_opredeleno"
    /\ calls[2][1].kind = "content"
    /\ df[2].sentiment = "Pozitivnaya"

\* C8 (as stated): a message without an author or without a text never makes
\* process_messages fail, and its record has the author "Unknown" when the
\* author is missing and the empty text (cleaned and original) when the text
\* is missing.
C8_MissingFieldDefaults ==
    /\ pc = "raised" =>
           \E i \in 1..Len(messages) : TimestampFails(messages[i])
    /\ \A i \in 1..Len(processed_data) :
           /\ "author" \notin DOMAIN messages[i] =>
                  processed_data[i].author = "Unknown"
           /\ "text" \notin DOMAIN messages[i] =>
                  /\ processed_data[i].text = <<>>
                  /\ processed_data[i].original_text = <<>>

\* the sheets as the initial state may have them
SheetsUntouched == sheets \in InitialSheets

\* C9: a run of collect_and_process_messages that got messages either
\* succeeds, with one record per message and one summary, or, when building
\* the records raises, fails as a whole: the error is logged, the run returns
\* False, and no sheet is written or changed, whatever records were built
\* before the failure.
C9_BatchAtomic ==
    (caller = "collect" /\ pc = "done" /\ messages # <<>>) =>
        \/ /\ result = "True"
           /\ ~FrameRaises(processed_data)
           /\ Len(df) = Len(messages)
           /\ ~summary.empty
           /\ summary.total = Len(messages)
        \/ /\ result = "False"
           /\ FrameRaises(processed_data)
           /\ log # <<>> /\ log[Len(log)] = "collect_error"
           /\ df = <<>>
           /\ summary = NoSummary
           /\ SheetsUntouched

\* C9 witness: with a spreadsheet set up and old sheets in place, a run built
\* the records of two messages and then failed on a timestamp.
C9_Witness ==
    /\ caller = "collect"
    /\ pc = "done"
    /\ result = "False"
    /\ spreadsheet_id = "id"
    /\ Len(messages) = 2
    /\ Len(processed_data) = 2
    /\ sheets.messages = OldSheet

\* C10 (as stated): the date, the time of day, the hour and the weekday of a
\* record all come from one parsed timestamp: the timestamp of the message, or,
\* when it has none, one current-time value taken during the call.
C10_OneInstant ==
    \A i \in 1..Len(df) :
        LET m == messages[i]
            r == df[i]
            From(t) == /\ r.date = FormatDate(t)
                       /\ r.time_of_day = FormatTime(t)
                       /\ r.hour = HourOf(FormatTime(t))
                       /\ r.weekday = DayName(FormatDate(t))
        IN  IF "timestamp" \in DOMAIN m
            THEN From(fromisoformat(m["timestamp"]))
            ELSE \E t \in reads[i][1]..reads[i][2] : From(t)

\* whether the log holds the line
Logged(line) == \E i \in 1..Len(log) : log[i] = line

\* C16 (as stated): collect_and_process_messages returns True, and logs that
\* the data was updated, only if the spreadsheet id is set and both
\* write_data_to_sheet and write_summary_to_sheet succeeded in that run, so that
\* the sheet "Сообщения" holds the rows and the sheet "Сводка" the summary.
C16_TrueOnlyIfWritten ==
    (caller = "collect" /\ pc = "done" /\ (result = "True" \/ Logged("info_updated"))) =>
        /\ spreadsheet_id # "None"
        /\ ~Logged("write_error")
        /\ ~Logged("summary_error")
        /\ sheets.messages.exists /\ sheets.messages.rows = df
        /\ sheets.summary.exists
        /\ Len(sheets.summary.rows) = 1
        /\ sheets.summary.rows[1].summary = summary

-----------------------------------------------------------------------------
(* Claims about the scheduled mode (SpecSched) *)

\* the rows of the worksheet "Сообщения"
SheetRows == sheets.messages.rows

\* C14 (as stated): in the scheduled mode no message is written to the sheet
\* "Сообщения" more than once: no two rows of the sheet hold the same message,
\* also after the first scheduled run, which finds no last_run.txt.
C14_WrittenOnce ==
    entry = "run_scheduled" =>
        \A i, j \in 1..Len(SheetRows) :
            i # j => SheetRows[i].message_id # SheetRows[j].message_id

\* C15 (as stated): a run of get_new_messages_only that selected new messages
\* and did not append them (append_data_to_sheet returned False, no
\* spreadsheet id was set, or processing raised) leaves last_run.txt as it was.
C15_MarkerAfterAppend ==
    (caller = "new" /\ messages # <<>> /\ appended # "yes") => last_run = prev_run

=============================================================================
